---------------------------- MODULE Spec2Model ----------------------------
(***************************************************************************)
(* Liquidation-opportunity monitor of HyperOrbit.                          *)
(*                                                                         *)
(*   lib/hyperLendProvider.ts        HyperLendProvider (snapshot source,   *)
(*                                   health factor calculator)             *)
(*   components/HyperLendLiquidatorMVP (src/unnamed/part_005)              *)
(*                                   the dashboard: scanner + executor     *)
(*   hooks/useHyperdriveContracts.ts HyperLendLiquidator: scanner,         *)
(*                                   auto-liquidation, history             *)
(*                                                                         *)
(* Numbers.  JavaScript numbers are modelled as fixed-point integers:      *)
(*   - an amount is counted in lots: 0.01 ETH, 0.01 BTC, 100 HYPE, 10 units*)
(*     of a stable coin (USDC, USDT, USDe);                                *)
(*   - a price is the USD price of one lot (ETH 3500 USD = 35, BTC 70000   *)
(*     USD = 700, HYPE 2.8 USD = 280, USDC 1 USD = 10);                    *)
(*   - valueUSD = amount * price is in whole USD;                          *)
(*   - a liquidation threshold and the liquidation bonus are in percent;   *)
(*   - the variance multiplier is in tenths;                               *)
(*   - a health factor is in thousandths, rounded down (1.0 = 1000);       *)
(*   - a profit estimate is in cents.                                      *)
(* Date.now() fields (lastUpdate, timestamp) are not modelled.             *)
(***************************************************************************)
EXTENDS Integers, Sequences, FiniteSets, TLC

(***************************************************************************)
(* Bounds of the model.                                                    *)
(***************************************************************************)
\* borrowers generated per snapshot (the source generates up to 8)
MaxBorrowers == 2
\* scans / executions that may be pending at the same time
MaxInFlight == 2
\* executions the HyperLendLiquidator may start in one behaviour
MaxExecutions == 2
\* positions handed to the calculator
MaxPositions == 2
\* WebSockets created by initialize()
MaxSockets == 1
\* pollPrices calls awaiting their fetch at one time
MaxPolls == 1
\* unsubscribe functions returned by subscribe()
MaxHandles == 2
\* the latest value of Date.now()
MaxTime == 1
\* poll intervals counted after a stream failure
MaxOutage == 3

(***************************************************************************)
(* Fixed-point scales and JavaScript number sentinels.                     *)
(***************************************************************************)
HFScale == 1000
ThresholdScale == 100
VarianceScale == 10
Infinity == 2000000000
NaN == 0 - 1

Min(a, b) == IF a <= b THEN a ELSE b

\* JavaScript a / b on non-negative numbers, the quotient scaled by `scale`.
JsDivide(a, b, scale) ==
    IF a = NaN \/ b = NaN THEN NaN
    ELSE IF b = 0 THEN (IF a = 0 THEN NaN ELSE Infinity)
    ELSE IF a = Infinity THEN Infinity
    ELSE (a * scale) \div b

\* JavaScript a < b: false as soon as one side is NaN.
JsLess(a, b) == a # NaN /\ b # NaN /\ a < b

RECURSIVE SumSeq(_)
SumSeq(s) == IF s = <<>> THEN 0 ELSE Head(s) + SumSeq(Tail(s))

RECURSIVE Flatten(_)
Flatten(ss) == IF ss = <<>> THEN <<>> ELSE Head(ss) \o Flatten(Tail(ss))

(***************************************************************************)
(* Price maps: Record<string, number>, a function from some symbols to     *)
(* prices.  A JSON value is such a map or null.                            *)
(***************************************************************************)

EmptyPrices == [s \in {} |-> 0]

JsonObject(fields) == [isNull |-> FALSE, fields |-> fields]
JsonNull == [isNull |-> TRUE, fields |-> EmptyPrices]

\* JavaScript prices[symbol] || d: d when the entry is missing or 0.
PriceOr(prices, symbol, d) ==
    IF symbol \in DOMAIN prices /\ prices[symbol] # 0 /\ prices[symbol] # NaN
    THEN prices[symbol] ELSE d

getDefaultPrices ==
    [ETH |-> 30, BTC |-> 650, USDC |-> 10, USDT |-> 10, HYPE |-> 250, USDe |-> 10]

getLiquidationThreshold(asset) ==
    LET thresholds == [ETH |-> 85, BTC |-> 85, USDC |-> 95, USDT |-> 95,
                       HYPE |-> 75, USDe |-> 85]
    IN  IF asset \in DOMAIN thresholds THEN thresholds[asset] ELSE 80

getBorrowRate(asset) ==
    LET rates == [ETH |-> 45, BTC |-> 35, USDC |-> 25, USDT |-> 25,
                  HYPE |-> 85, USDe |-> 65]
    IN  IF asset \in DOMAIN rates THEN rates[asset] ELSE 50

(***************************************************************************)
(* HyperLendProvider: health factor, liquidation arithmetic.               *)
(***************************************************************************)
CollateralAsset(symbol, amount, valueUSD, threshold) ==
    [symbol |-> symbol, amount |-> amount, valueUSD |-> valueUSD,
     liquidationThreshold |-> threshold]

DebtAsset(symbol, amount, valueUSD, borrowRate) ==
    [symbol |-> symbol, amount |-> amount, valueUSD |-> valueUSD,
     borrowRate |-> borrowRate]

WeightedValue(asset) == asset.valueUSD * asset.liquidationThreshold
ValueUSD(asset) == asset.valueUSD

\* the two reduce calls of calculateHealthFactor
TotalWeightedValue(assets) == SumSeq([i \in 1..Len(assets) |-> WeightedValue(assets[i])])
TotalValueUSD(assets) == SumSeq([i \in 1..Len(assets) |-> ValueUSD(assets[i])])

\* mutants of calculateHealthFactor
calculateHealthFactorNoZeroGuard(collateralAssets, debtAssets) ==
    JsDivide(TotalWeightedValue(collateralAssets),
             TotalValueUSD(debtAssets), HFScale \div ThresholdScale)

calculateHealthFactorUnweighted(collateralAssets, debtAssets) ==
    LET totalDebtValue == TotalValueUSD(debtAssets)
    IN  IF totalDebtValue = 0 THEN Infinity
        ELSE JsDivide(TotalValueUSD(collateralAssets), totalDebtValue, HFScale)

calculateHealthFactorInverted(collateralAssets, debtAssets) ==
    LET totalCollateralValue == TotalWeightedValue(collateralAssets)
        totalDebtValue == TotalValueUSD(debtAssets)
    IN  IF totalDebtValue = 0 THEN Infinity
        ELSE JsDivide(totalDebtValue * ThresholdScale * ThresholdScale,
                      totalCollateralValue, HFScale \div ThresholdScale)

calculateHealthFactor(collateralAssets, debtAssets) ==
    LET totalCollateralValue == TotalWeightedValue(collateralAssets)
        totalDebtValue == TotalValueUSD(debtAssets)
    IN  IF totalDebtValue = 0 THEN Infinity
        ELSE JsDivide(totalCollateralValue, totalDebtValue, HFScale \div ThresholdScale)

isLiquidatable(borrower) == JsLess(borrower.healthFactor, HFScale)

calculateMaxLiquidationAmount(borrower, debtAsset) ==
    Min(debtAsset.amount \div 2, debtAsset.valueUSD \div 2)

estimateLiquidationProfit(liquidationAmount, liquidationBonus) ==
    liquidationAmount * liquidationBonus

(***************************************************************************)
(* HyperLendProvider: the borrower snapshot source.                        *)
(***************************************************************************)
sampleAddresses ==
    << "0x742d...1b11", "0x8ba1...BC45", "0xdAC1...1ec7", "0x1f98...F984",
       "0xA0b8...c1b7", "0x95aD...C4cE", "0x6B17...1d0F", "0x5149...86CA" >>

Scenario(collateralAssets, debtAssets) ==
    [collateralAssets |-> collateralAssets, debtAssets |-> debtAssets]

\* prices is a price map (never null here: a null map raises in the caller).
generateRealisticScenariosWithRealPrices(prices) ==
    LET ethPrice == PriceOr(prices, "ETH", 35)
        btcPrice == PriceOr(prices, "BTC", 700)
        hypePrice == PriceOr(prices, "HYPE", 280)
        usdcPrice == PriceOr(prices, "USDC", 10)
        usdePrice == PriceOr(prices, "USDe", 10)
    IN  << Scenario(<< CollateralAsset("ETH", 850, 850 * ethPrice, 85) >>,
                    << DebtAsset("USDC", 2200, 2200 * usdcPrice, 35) >>),
           Scenario(<< CollateralAsset("BTC", 120, 120 * btcPrice, 85) >>,
                    << DebtAsset("USDe", 6500, 6500 * usdePrice, 75) >>),
           Scenario(<< CollateralAsset("HYPE", 350, 350 * hypePrice, 75) >>,
                    << DebtAsset("USDC", 7000, 7000 * usdcPrice, 35) >>),
           Scenario(<< CollateralAsset("ETH", 400, 400 * ethPrice, 85),
                       CollateralAsset("BTC", 50, 50 * btcPrice, 85) >>,
                    << DebtAsset("USDC", 3500, 3500 * usdcPrice, 35) >>),
           Scenario(<< CollateralAsset("ETH", 1500, 1500 * ethPrice, 85) >>,
                    << DebtAsset("USDC", 2500, 2500 * usdcPrice, 35) >>),
           Scenario(<< CollateralAsset("HYPE", 800, 800 * hypePrice, 75) >>,
                    << DebtAsset("USDe", 14000, 14000 * usdePrice, 75) >>),
           Scenario(<< CollateralAsset("BTC", 80, 80 * btcPrice, 85),
                       CollateralAsset("HYPE", 120, 120 * hypePrice, 75) >>,
                    << DebtAsset("USDC", 4500, 4500 * usdcPrice, 35) >>),
           Scenario(<< CollateralAsset("ETH", 320, 320 * ethPrice, 85) >>,
                    << DebtAsset("USDC", 950, 950 * usdcPrice, 35) >>) >>

\* x * variance, variance in tenths
TimesVariance(x, variance) ==
    IF x = NaN \/ x = Infinity THEN x ELSE (x * variance) \div VarianceScale

\* Array.prototype.sort((a, b) => a.healthFactor - b.healthFactor): stable.
\* a sort whose comparator is b.healthFactor - a.healthFactor
RECURSIVE InsertByHealthFactorDescending(_, _)
InsertByHealthFactorDescending(sorted, b) ==
    IF sorted = <<>> THEN << b >>
    ELSE IF JsLess(Head(sorted).healthFactor, b.healthFactor)
         THEN << b >> \o sorted
         ELSE << Head(sorted) >> \o InsertByHealthFactorDescending(Tail(sorted), b)

RECURSIVE InsertByHealthFactor(_, _)
InsertByHealthFactor(sorted, b) ==
    IF sorted = <<>> THEN << b >>
    ELSE IF JsLess(b.healthFactor, Head(sorted).healthFactor)
         THEN << b >> \o sorted
         ELSE << Head(sorted) >> \o InsertByHealthFactor(Tail(sorted), b)

RECURSIVE SortByHealthFactor(_)
SortByHealthFactor(s) ==
    IF s = <<>> THEN <<>>
    ELSE InsertByHealthFactor(SortByHealthFactor(SubSeq(s, 1, Len(s) - 1)), s[Len(s)])

\* an iteration that scales the health factor and the total but returns the
\* collateral assets of the scenario as they are
LiveBorrowerUnvariedAssets(address, scenario, variance) ==
    LET healthFactor == calculateHealthFactor(scenario.collateralAssets, scenario.debtAssets)
    IN  [address |-> address,
         healthFactor |-> TimesVariance(healthFactor, variance),
         totalCollateral |->
             TimesVariance(TotalValueUSD(scenario.collateralAssets), variance),
         totalDebt |-> TotalValueUSD(scenario.debtAssets),
         collateralAssets |-> scenario.collateralAssets,
         debtAssets |-> scenario.debtAssets]

\* One iteration of the loop of getLiveBorrowerData.
LiveBorrower(address, scenario, variance) ==
    LET healthFactor == calculateHealthFactor(scenario.collateralAssets, scenario.debtAssets)
        Varied(asset) == [asset EXCEPT !.valueUSD = TimesVariance(@, variance),
                                       !.amount = TimesVariance(@, variance)]
    IN  [address |-> address,
         healthFactor |-> TimesVariance(healthFactor, variance),
         totalCollateral |->
             TimesVariance(TotalValueUSD(scenario.collateralAssets), variance),
         totalDebt |-> TotalValueUSD(scenario.debtAssets),
         collateralAssets |->
             [i \in 1..Len(scenario.collateralAssets) |-> Varied(scenario.collateralAssets[i])],
         debtAssets |-> scenario.debtAssets]

\* a loop that reads the prices again for every borrower after the first and
\* gets the default prices then
getLiveBorrowerDataRereading(prices, variances) ==
    IF prices.isNull THEN <<>>
    ELSE LET first == generateRealisticScenariosWithRealPrices(prices.fields)
             later == generateRealisticScenariosWithRealPrices(getDefaultPrices)
             n == Min(Min(Len(first), Len(sampleAddresses)), MaxBorrowers)
             borrowers == [i \in 1..n |->
                             LiveBorrower(sampleAddresses[i],
                                          IF i = 1 THEN first[i] ELSE later[i],
                                          variances[i])]
         IN  SortByHealthFactor(borrowers)

\* prices: the JSON value getCurrentPrices returned; variances: one draw of
\* Math.random per borrower.  A null price map raises a TypeError in
\* generateRealisticScenariosWithRealPrices, which the catch turns into [].
getLiveBorrowerData(prices, variances) ==
    IF prices.isNull THEN <<>>
    ELSE LET scenarios == generateRealisticScenariosWithRealPrices(prices.fields)
             n == Min(Min(Len(scenarios), Len(sampleAddresses)), MaxBorrowers)
             borrowers == [i \in 1..n |->
                             LiveBorrower(sampleAddresses[i], scenarios[i], variances[i])]
         IN  SortByHealthFactor(borrowers)

getBorrowers(prices, variances) == getLiveBorrowerData(prices, variances)

(***************************************************************************)
(* HyperLendProvider.calculateBorrowerMetrics: a borrower from signed      *)
(* position totals (positive = collateral, negative = debt).               *)
(***************************************************************************)
Position(coin, total) == [coin |-> coin, total |-> total]

Abs(x) == IF x < 0 THEN 0 - x ELSE x

PositionCollateral(positions, prices) ==
    LET IsCollateral(p) == p.total > 0
        Asset(p) == CollateralAsset(p.coin, p.total, p.total * PriceOr(prices, p.coin, 0),
                                    getLiquidationThreshold(p.coin))
        long == SelectSeq(positions, IsCollateral)
    IN  [i \in 1..Len(long) |-> Asset(long[i])]

PositionDebt(positions, prices) ==
    LET IsDebt(p) == p.total < 0
        Asset(p) == DebtAsset(p.coin, Abs(p.total), Abs(p.total) * PriceOr(prices, p.coin, 0),
                              getBorrowRate(p.coin))
        short == SelectSeq(positions, IsDebt)
    IN  [i \in 1..Len(short) |-> Asset(short[i])]

\* totalCollateral / getAverageThreshold(collateralAssets), where totalCollateral is
\* the threshold-weighted sum W and the average threshold is W / V for the plain
\* sum V: 0 / 0.8 without collateral, NaN when V = 0, and V otherwise.
UnweightedCollateral(collateralAssets) ==
    LET totalValue == TotalValueUSD(collateralAssets)
    IN  IF collateralAssets = <<>> THEN 0
        ELSE IF totalValue = 0 THEN NaN
        ELSE totalValue

\* The result is a sequence: << >> for null, << borrower >> otherwise.
calculateBorrowerMetrics(address, positions, prices) ==
    LET collateralAssets == PositionCollateral(positions, prices)
        debtAssets == PositionDebt(positions, prices)
        totalCollateral == TotalWeightedValue(collateralAssets)
        totalDebt == TotalValueUSD(debtAssets)
    IN  IF totalDebt = 0 THEN <<>>
        ELSE << [address |-> address,
                 healthFactor |-> JsDivide(totalCollateral, totalDebt,
                                           HFScale \div ThresholdScale),
                 totalCollateral |-> UnweightedCollateral(collateralAssets),
                 totalDebt |-> totalDebt,
                 collateralAssets |-> collateralAssets,
                 debtAssets |-> debtAssets] >>

(***************************************************************************)
(* The two scanners.                                                       *)
(***************************************************************************)
\* x * 0.5; every debt value of the model is even
Half(x) == IF x = NaN THEN NaN ELSE x \div 2

\* HyperLendLiquidatorMVP.fetchBorrowers, the body of sortedData.forEach
MvpOpportunity(borrower) ==
    LET maxLiquidationValue == Half(borrower.totalDebt)
        liquidationBonus == 5
        profitEstimate == maxLiquidationValue * liquidationBonus
    IN  [borrower |-> borrower,
         profitEstimate |-> profitEstimate,
         liquidationBonus |-> liquidationBonus,
         maxLiquidationValue |-> maxLiquidationValue]

MvpLiquidatableInclusive(borrower) ==
    borrower.healthFactor # NaN /\ borrower.healthFactor <= HFScale

MvpLiquidatable(borrower) == JsLess(borrower.healthFactor, HFScale)

MvpOpportunities(sortedData) ==
    LET liquidatable == SelectSeq(sortedData, MvpLiquidatable)
    IN  [i \in 1..Len(liquidatable) |-> MvpOpportunity(liquidatable[i])]

PairOpportunityOnCollateral(borrower, collateral, debt) ==
    [borrower |-> borrower,
     collateralToSeize |-> collateral,
     debtToRepay |-> debt,
     profitEstimate |-> collateral.valueUSD * 5,
     liquidationBonus |-> 5]

\* HyperLendLiquidator.checkLiquidationOpportunities, the innermost body
PairOpportunity(borrower, collateral, debt) ==
    LET liquidationBonus == 5
        maxLiquidation == Min(Half(debt.valueUSD), collateral.valueUSD)
        profitEstimate == maxLiquidation * liquidationBonus
    IN  [borrower |-> borrower,
         collateralToSeize |-> collateral,
         debtToRepay |-> debt,
         profitEstimate |-> profitEstimate,
         liquidationBonus |-> liquidationBonus]

BorrowerOpportunities(borrower) ==
    IF JsLess(borrower.healthFactor, HFScale)
    THEN Flatten([c \in 1..Len(borrower.collateralAssets) |->
                    [d \in 1..Len(borrower.debtAssets) |->
                        PairOpportunity(borrower, borrower.collateralAssets[c],
                                        borrower.debtAssets[d])]])
    ELSE <<>>

checkLiquidationOpportunities(borrowersData) ==
    Flatten([i \in 1..Len(borrowersData) |-> BorrowerOpportunities(borrowersData[i])])

(***************************************************************************)
(* State.                                                                  *)
(***************************************************************************)
VARIABLES
    \* the calculator applied to one position (SpecCalc)
    calcIn,          \* [collateral, debt: sequences of [symbol, amount], prices]
    calcPc,          \* "input", "done", "increased"
    calcOut,         \* results of the last application
    \* RealTimePriceProvider as the snapshot source sees it
    priceCache,      \* getAllPrices(): a price map, empty before the first update
    \* HyperLendLiquidatorMVP (src/unnamed/part_005)
    mvpBorrowers,    \* borrowers
    mvpOpportunities,\* liquidationOpportunities
    mvpInProgress,   \* liquidationInProgress: set of addresses
    mvpLoading,      \* loading
    autoRefresh,     \* autoRefresh
    mvpScans,        \* pending fetchBorrowers calls, by the execution awaiting them
    mvpExecs,        \* executions in their 2 s delay, per address
    \* HyperLendLiquidator (hooks/useHyperdriveContracts.ts)
    liqBorrowers,    \* borrowers
    liqOpportunities,\* liquidationOpportunities
    liqHistory,      \* liquidationHistory
    isMonitoring,    \* isMonitoring; the interval exists exactly while it is TRUE
    autoLiquidationEnabled,
    liqScans,        \* number of pending fetchBorrowers calls
    liqRuns,         \* pending execution loops: the opportunities still to execute,
                     \* the first of each being in its 2 s delay
    \* RealTimePriceProvider (lib/hyperliquidDataProvider.ts), its own state
    feedSockets,     \* the WebSockets created so far, each with its handlers: states
    wsConnection,    \* wsConnection: 0 (null) or an index of feedSockets
    feedCache,       \* priceCache: symbol -> [price, timestamp, source]
    feedSubscribers, \* subscribers: set of callbacks
    feedHandles,     \* unsubscribe functions returned so far: [callback, invoked]
    isPolling,       \* isPolling
    pollingInterval, \* pollingInterval is set
    feedPolls,       \* pollPrices calls awaiting their fetch
    feedNow,         \* Date.now()
    feedNotified,    \* callbacks invoked by the last handler: [calls, snapshot]
    feedOutage       \* poll intervals elapsed since the stream failed with no price
                     \* update since; -1 when there is no such failure

calcVars == << calcIn, calcPc, calcOut >>
envVars == << priceCache >>
mvpVars == << mvpBorrowers, mvpOpportunities, mvpInProgress, mvpLoading, autoRefresh,
              mvpScans, mvpExecs >>
liqVars == << liqBorrowers, liqOpportunities, liqHistory, isMonitoring,
              autoLiquidationEnabled, liqScans, liqRuns >>
feedVars == << feedSockets, wsConnection, feedCache, feedSubscribers, feedHandles, isPolling,
               pollingInterval, feedPolls, feedNow, feedNotified, feedOutage >>
vars == << calcVars, envVars, mvpVars, liqVars, feedVars >>

(***************************************************************************)
(* SpecCalc: the pure functions applied to bounded inputs.                 *)
(***************************************************************************)
CalcCollateralSymbols == {"ETH", "HYPE"}
CalcCollateralAmounts == {0, 500}
CalcDebtSymbols == {"USDC"}
CalcDebtAmounts == {0, 200, 1200, 1275}
CalcIncrements == {10, 500}

CalcPriceMaps ==
    { [ETH |-> 27, HYPE |-> 280, USDC |-> 10],
      [ETH |-> 30, HYPE |-> 250, USDC |-> 10],
      [ETH |-> 2,  HYPE |-> 280, USDC |-> 10],
      [ETH |-> 27, HYPE |-> 280, USDC |-> 0],
      [ETH |-> 27, USDC |-> 10] }

Holding(symbol, amount) == [symbol |-> symbol, amount |-> amount]

\* assets as the provider builds them: valueUSD = amount * price
CalcCollateralAssets(in) ==
    LET Asset(h) == CollateralAsset(h.symbol, h.amount,
                                    h.amount * PriceOr(in.prices, h.symbol, 0),
                                    getLiquidationThreshold(h.symbol))
    IN  [i \in 1..Len(in.collateral) |-> Asset(in.collateral[i])]

CalcDebtAssets(in) ==
    LET Asset(h) == DebtAsset(h.symbol, h.amount,
                              h.amount * PriceOr(in.prices, h.symbol, 0),
                              getBorrowRate(h.symbol))
    IN  [i \in 1..Len(in.debt) |-> Asset(in.debt[i])]

CalcPositions(in) ==
    LET Long(h) == Position(h.symbol, h.amount)
        Short(h) == Position(h.symbol, 0 - h.amount)
    IN  [i \in 1..Len(in.collateral) |-> Long(in.collateral[i])]
            \o [i \in 1..Len(in.debt) |-> Short(in.debt[i])]

CalcAddress == "0xB"

\* The calculator, calculateBorrowerMetrics, and both scanners applied to the
\* borrower getLiveBorrowerData builds from the assets (variance 1.0).
CalcResults(in, prevHF) ==
    LET scenario == Scenario(CalcCollateralAssets(in), CalcDebtAssets(in))
        borrowers == << LiveBorrower(CalcAddress, scenario, VarianceScale) >>
    IN  [hf |-> calculateHealthFactor(scenario.collateralAssets, scenario.debtAssets),
         prevHF |-> prevHF,
         metrics |-> calculateBorrowerMetrics(CalcAddress, CalcPositions(in), in.prices),
         borrowers |-> borrowers,
         mvp |-> MvpOpportunities(SortByHealthFactor(borrowers)),
         liq |-> checkLiquidationOpportunities(borrowers)]

NoResults ==
    [hf |-> NaN, prevHF |-> NaN, metrics |-> <<>>, borrowers |-> <<>>,
     mvp |-> <<>>, liq |-> <<>>]

CalcAddCollateral(symbol, amount) ==
    /\ UNCHANGED << envVars, mvpVars, liqVars, feedVars >>
    /\ calcPc = "input"
    /\ Len(calcIn.collateral) < MaxPositions
    /\ calcIn' = [calcIn EXCEPT !.collateral = Append(@, Holding(symbol, amount))]
    /\ UNCHANGED << calcPc, calcOut >>

CalcAddDebt(symbol, amount) ==
    /\ UNCHANGED << envVars, mvpVars, liqVars, feedVars >>
    /\ calcPc = "input"
    /\ Len(calcIn.debt) < MaxPositions
    /\ calcIn' = [calcIn EXCEPT !.debt = Append(@, Holding(symbol, amount))]
    /\ UNCHANGED << calcPc, calcOut >>

CalcApply ==
    /\ UNCHANGED << envVars, mvpVars, liqVars, feedVars >>
    /\ calcPc = "input"
    /\ calcPc' = "done"
    /\ calcOut' = CalcResults(calcIn, NaN)
    /\ UNCHANGED calcIn

\* one collateral amount grows, everything else is held fixed
CalcIncreaseCollateral(i, delta) ==
    /\ UNCHANGED << envVars, mvpVars, liqVars, feedVars >>
    /\ calcPc = "done"
    /\ i \in 1..Len(calcIn.collateral)
    /\ calcIn' = [calcIn EXCEPT !.collateral[i].amount = @ + delta]
    /\ calcPc' = "increased"
    /\ calcOut' = CalcResults(calcIn', calcOut.hf)

NextCalc ==
    \/ \E symbol \in CalcCollateralSymbols, amount \in CalcCollateralAmounts :
          CalcAddCollateral(symbol, amount)
    \/ \E symbol \in CalcDebtSymbols, amount \in CalcDebtAmounts :
          CalcAddDebt(symbol, amount)
    \/ CalcApply
    \/ \E i \in 1..MaxPositions, delta \in CalcIncrements :
          CalcIncreaseCollateral(i, delta)

(***************************************************************************)
(* Initial states.                                                         *)
(***************************************************************************)
Addresses == {sampleAddresses[i] : i \in 1..Min(Len(sampleAddresses), MaxBorrowers)}
NoOwner == "none"
ScanOwners == Addresses \cup {NoOwner}

InitCalcIdle ==
    /\ calcIn = [collateral |-> <<>>, debt |-> <<>>, prices |-> EmptyPrices]
    /\ calcPc = "input"
    /\ calcOut = NoResults

(***************************************************************************)
(* RealTimePriceProvider: values and the state after construction.         *)
(***************************************************************************)
Callbacks == {"cb1", "cb2"}

EmptyCache == [s \in {} |-> 0]

NoCalls == [cb \in Callbacks |-> 0]

\* no subscriber was invoked by the last handler
NotNotified == [calls |-> NoCalls, snapshot |-> EmptyCache]

InitFeed ==
    /\ feedSockets = <<>>
    /\ wsConnection = 0
    /\ feedCache = EmptyCache
    /\ feedSubscribers = {}
    /\ feedHandles = <<>>
    /\ isPolling = FALSE
    /\ pollingInterval = FALSE
    /\ feedPolls = 0
    /\ feedNow = 0
    /\ feedNotified = NotNotified
    /\ feedOutage = 0 - 1

InitMonitor ==
    /\ InitFeed
    /\ priceCache = EmptyPrices
    /\ mvpBorrowers = <<>>
    /\ mvpOpportunities = <<>>
    /\ mvpInProgress = {}
    /\ mvpLoading = TRUE
    /\ autoRefresh = TRUE
    /\ mvpScans = [o \in ScanOwners |-> 0]
    /\ mvpExecs = [a \in Addresses |-> 0]
    /\ liqBorrowers = <<>>
    /\ liqOpportunities = <<>>
    /\ liqHistory = <<>>
    /\ isMonitoring = FALSE
    /\ autoLiquidationEnabled = FALSE
    /\ liqScans = 0
    /\ liqRuns = <<>>

InitCalc ==
    /\ \E prices \in CalcPriceMaps :
          calcIn = [collateral |-> <<>>, debt |-> <<>>, prices |-> prices]
    /\ calcPc = "input"
    /\ calcOut = NoResults
    /\ InitMonitor

SpecCalc == InitCalc /\ [][NextCalc]_vars

(***************************************************************************)
(* Claims about the calculator (SpecCalc).                                 *)
(***************************************************************************)
CalcApplied == calcPc \in {"done", "increased"}

\* the quantities of the specification, from amounts and prices
SpecPrice(symbol) ==
    IF symbol \in DOMAIN calcIn.prices THEN calcIn.prices[symbol] ELSE 0

SpecDebtValue ==
    LET Value(h) == h.amount * SpecPrice(h.symbol)
    IN  SumSeq([i \in 1..Len(calcIn.debt) |-> Value(calcIn.debt[i])])

SpecCollateralValue ==
    LET Value(h) == h.amount * SpecPrice(h.symbol)
    IN  SumSeq([i \in 1..Len(calcIn.collateral) |-> Value(calcIn.collateral[i])])

SpecRiskWeightedCollateral ==
    LET Value(h) == h.amount * SpecPrice(h.symbol) * getLiquidationThreshold(h.symbol)
    IN  SumSeq([i \in 1..Len(calcIn.collateral) |-> Value(calcIn.collateral[i])])

SpecHealthFactor ==
    (SpecRiskWeightedCollateral * (HFScale \div ThresholdScale)) \div SpecDebtValue

\* C6: whenever the total debt value is exactly 0 (no debt, debts of amount 0,
\* debts priced 0), the calculator returns the infinity sentinel, never NaN.
C6_ZeroDebtIsInfinity ==
    (CalcApplied /\ SpecDebtValue = 0) => (calcOut.hf = Infinity /\ calcOut.hf # NaN)

\* C6 witness: the calculator ran on a debt of amount 0 with no collateral value
\* (the 0 / 0 case) and returned the sentinel.
C6_Witness ==
    /\ calcPc = "done"
    /\ calcIn.debt # <<>>
    /\ \A i \in 1..Len(calcIn.debt) : calcIn.debt[i].amount = 0
    /\ SpecCollateralValue = 0
    /\ calcOut.hf = Infinity

\* C7: with a non-zero total debt value the health factor is
\* sum(amount * price * liquidationThreshold) over the collateral divided by
\* sum(amount * price) over the debt, for calculateHealthFactor and for
\* calculateBorrowerMetrics (which drops the positions of amount 0).
C7_HealthFactorFormula ==
    (CalcApplied /\ SpecDebtValue # 0) =>
        /\ calcOut.hf = SpecHealthFactor
        /\ Len(calcOut.metrics) = 1
        /\ calcOut.metrics[1].healthFactor = SpecHealthFactor

\* C7 witness: two collateral assets with different thresholds, one position of
\* amount 0 among the inputs, a finite non-zero result.
C7_Witness ==
    /\ calcPc = "done"
    /\ SpecDebtValue # 0
    /\ Len(calcIn.collateral) = 2
    /\ calcIn.collateral[1].symbol # calcIn.collateral[2].symbol
    /\ calcIn.collateral[1].amount # 0
    /\ calcIn.collateral[2].amount # 0
    /\ \E i \in 1..Len(calcIn.debt) : calcIn.debt[i].amount = 0
    /\ calcOut.hf = SpecHealthFactor
    /\ calcOut.hf > 0 /\ calcOut.hf < Infinity

\* C8: increasing one collateral amount, all else fixed, never lowers the health
\* factor of a position with non-zero debt.
C8_MonotoneInCollateral ==
    (calcPc = "increased" /\ SpecDebtValue # 0) => calcOut.hf >= calcOut.prevHF

\* C8 witness: an increase that strictly raised a finite health factor.
C8_Witness ==
    /\ calcPc = "increased"
    /\ SpecDebtValue # 0
    /\ calcOut.prevHF # NaN
    /\ calcOut.hf > calcOut.prevHF
    /\ calcOut.hf < Infinity

BonusRatePercent == 5

IsScenarioB ==
    /\ calcIn.collateral = << Holding("ETH", 500) >>
    /\ calcIn.debt = << Holding("USDC", 1200) >>
    /\ SpecPrice("ETH") = 27
    /\ SpecPrice("USDC") = 10

\* C10: every generated opportunity has estimated profit = maximum liquidation
\* value * bonus rate with bonus rate 0.05; for 5 ETH (threshold 0.85) against
\* 12,000 USDC at ETH = 2700, USDC = 1 both scanners publish an opportunity
\* with maximum liquidation value 6000 USD and estimated profit 300 USD.
C10_ProfitIsBonusOnMax ==
    CalcApplied =>
        /\ \A i \in 1..Len(calcOut.mvp) :
              /\ calcOut.mvp[i].liquidationBonus = BonusRatePercent
              /\ calcOut.mvp[i].profitEstimate =
                    calcOut.mvp[i].maxLiquidationValue * BonusRatePercent
        /\ \A i \in 1..Len(calcOut.liq) :
              /\ calcOut.liq[i].liquidationBonus = BonusRatePercent
              /\ calcOut.liq[i].profitEstimate =
                    Min(calcOut.liq[i].debtToRepay.valueUSD \div 2,
                        calcOut.liq[i].collateralToSeize.valueUSD) * BonusRatePercent
              /\ calcOut.liq[i].profitEstimate =
                    estimateLiquidationProfit(
                        Min(calcOut.liq[i].debtToRepay.valueUSD \div 2,
                            calcOut.liq[i].collateralToSeize.valueUSD), BonusRatePercent)
        /\ IsScenarioB =>
              /\ \E i \in 1..Len(calcOut.mvp) :
                    /\ calcOut.mvp[i].borrower.address = CalcAddress
                    /\ calcOut.mvp[i].maxLiquidationValue = 6000
                    /\ calcOut.mvp[i].profitEstimate = 30000
              /\ \E i \in 1..Len(calcOut.liq) :
                    /\ calcOut.liq[i].borrower.address = CalcAddress
                    /\ calcOut.liq[i].profitEstimate = 30000

\* C10 witness: the scanners ran on the scenario and produced opportunities.
C10_Witness ==
    /\ calcPc = "done"
    /\ IsScenarioB
    /\ Len(calcOut.mvp) = 1
    /\ Len(calcOut.liq) = 1
    /\ calcOut.borrowers[1].healthFactor = 956

(***************************************************************************)
(* The environment of the scanners: the price cache and the allMids API.   *)
(***************************************************************************)
LivePriceMaps ==
    { [ETH |-> 27, BTC |-> 700, USDC |-> 10, USDT |-> 10, HYPE |-> 280, USDe |-> 10],
      [ETH |-> 10, BTC |-> 300, USDC |-> 10, USDT |-> 10, HYPE |-> 100, USDe |-> 10] }

\* Math.random() gives a variance in [0.8, 1.2)
VarianceChoices == {8, 10}
VarianceDraws == [1..MaxBorrowers -> VarianceChoices]

\* the answer of POST /info: not ok (or a network error), or a JSON body
ApiResponse(ok, body) == [ok |-> ok, body |-> body]
ApiResponses ==
    {ApiResponse(FALSE, JsonNull), ApiResponse(TRUE, JsonNull)}
        \cup {ApiResponse(TRUE, JsonObject(m)) : m \in LivePriceMaps}

\* getCurrentPrices once the API answered (the cache was empty when it was read)
getCurrentPrices(response) ==
    IF response.ok THEN response.body ELSE JsonObject(getDefaultPrices)

\* processPriceUpdate / pollPrices as getAllPrices() shows them
PriceUpdate(prices) ==
    /\ priceCache # prices
    /\ priceCache' = prices

(***************************************************************************)
(* HyperLendLiquidatorMVP.                                                 *)
(***************************************************************************)
TotalOf(f) ==
    LET RECURSIVE Total(_)
        Total(S) == IF S = {} THEN 0
                    ELSE LET x == CHOOSE x \in S : TRUE IN f[x] + Total(S \ {x})
    IN  Total(DOMAIN f)

\* fetchBorrowers from setBorrowers to setLiquidationOpportunities
MvpPublish(data) ==
    LET sortedData == SortByHealthFactor(data)
    IN  /\ mvpBorrowers' = sortedData
        /\ mvpOpportunities' = MvpOpportunities(sortedData)

\* a fetchBorrowers without its finally block
MvpFinallySkipped == mvpLoading' = mvpLoading

\* finally { setLoading(false) }
MvpFinally == mvpLoading' = FALSE

\* fetchBorrowers(), called for `owner` (an execution awaiting it, or nobody).
\* With a non-empty price cache no step of it waits for I/O and it runs to its
\* end; otherwise it stays pending on the allMids request.
MvpFetchBorrowers(owner, inProgress) ==
    \/ /\ priceCache # EmptyPrices
       /\ \E variances \in VarianceDraws :
             MvpPublish(getBorrowers(JsonObject(priceCache), variances))
       /\ MvpFinally
       /\ mvpInProgress' = inProgress \ {owner}
       /\ UNCHANGED mvpScans
    \/ /\ priceCache = EmptyPrices
       /\ TotalOf(mvpScans) < MaxInFlight
       /\ mvpScans' = [mvpScans EXCEPT ![owner] = @ + 1]
       /\ mvpLoading' = TRUE
       /\ mvpInProgress' = inProgress
       /\ UNCHANGED << mvpBorrowers, mvpOpportunities >>

\* the allMids request of a pending fetchBorrowers is answered
MvpScanResponse(owner, response) ==
    /\ UNCHANGED << calcVars, envVars, liqVars, feedVars >>
    /\ mvpScans[owner] > 0
    /\ mvpScans' = [mvpScans EXCEPT ![owner] = @ - 1]
    /\ \E variances \in VarianceDraws :
          MvpPublish(getBorrowers(getCurrentPrices(response), variances))
    /\ MvpFinally
    /\ mvpInProgress' = mvpInProgress \ {owner}
    /\ UNCHANGED << autoRefresh, mvpExecs >>

\* setInterval(fetchBorrowers, 30000)
MvpTimerTick ==
    /\ UNCHANGED << calcVars, envVars, liqVars, feedVars >>
    /\ autoRefresh
    /\ MvpFetchBorrowers(NoOwner, mvpInProgress)
    /\ UNCHANGED << autoRefresh, mvpExecs >>

\* the Auto Refresh checkbox: the effect runs again and calls fetchBorrowers()
MvpToggleAutoRefresh ==
    /\ UNCHANGED << calcVars, envVars, liqVars, feedVars >>
    /\ autoRefresh' = ~autoRefresh
    /\ MvpFetchBorrowers(NoOwner, mvpInProgress)
    /\ UNCHANGED mvpExecs

\* the Refresh button, disabled while loading
MvpClickRefresh ==
    /\ UNCHANGED << calcVars, envVars, liqVars, feedVars >>
    /\ ~mvpLoading
    /\ MvpFetchBorrowers(NoOwner, mvpInProgress)
    /\ UNCHANGED << autoRefresh, mvpExecs >>

\* an executeLiquidation that does not mark its address
MvpExecuteLiquidationUnmarked(opportunity) ==
    LET address == opportunity.borrower.address
    IN  /\ TotalOf(mvpExecs) + TotalOf(mvpScans) < MaxInFlight
        /\ mvpExecs' = [mvpExecs EXCEPT ![address] = @ + 1]
        /\ UNCHANGED << mvpBorrowers, mvpOpportunities, mvpInProgress, mvpLoading,
                        autoRefresh, mvpScans >>

\* executeLiquidation up to its await of the 2 s delay
MvpExecuteLiquidation(opportunity) ==
    LET address == opportunity.borrower.address
    IN  /\ TotalOf(mvpExecs) + TotalOf(mvpScans) < MaxInFlight
        /\ mvpInProgress' = mvpInProgress \cup {address}
        /\ mvpExecs' = [mvpExecs EXCEPT ![address] = @ + 1]
        /\ UNCHANGED << mvpBorrowers, mvpOpportunities, mvpLoading, autoRefresh, mvpScans >>

\* the Liquidate button of a borrower row (rendered when not loading, for a
\* health factor < 1.0; disabled while the address is in progress)
MvpClickLiquidate(i) ==
    /\ UNCHANGED << calcVars, envVars, liqVars, feedVars >>
    /\ ~mvpLoading
    /\ i \in 1..Len(mvpBorrowers)
    /\ JsLess(mvpBorrowers[i].healthFactor, HFScale)
    /\ mvpBorrowers[i].address \notin mvpInProgress
    /\ \E j \in 1..Len(mvpOpportunities) :
          /\ mvpOpportunities[j].borrower.address = mvpBorrowers[i].address
          /\ \A k \in 1..(j - 1) :
                mvpOpportunities[k].borrower.address # mvpBorrowers[i].address
          /\ MvpExecuteLiquidation(mvpOpportunities[j])

\* the Execute button of an opportunity row (disabled while in progress)
MvpClickExecute(j) ==
    /\ UNCHANGED << calcVars, envVars, liqVars, feedVars >>
    /\ j \in 1..Len(mvpOpportunities)
    /\ mvpOpportunities[j].borrower.address \notin mvpInProgress
    /\ MvpExecuteLiquidation(mvpOpportunities[j])

\* The execution records the dashboard keeps: its state is borrowers,
\* opportunities, prices and flags, and executeLiquidation writes none of them
\* but liquidationInProgress; a failure goes to console.error only.
MvpExecutionHistory == <<>>

\* the 2 s delay of an execution ends; Math.random() decides success
MvpExecutionTimer(address, success) ==
    /\ UNCHANGED << calcVars, envVars, liqVars, feedVars >>
    /\ mvpExecs[address] > 0
    /\ mvpExecs' = [mvpExecs EXCEPT ![address] = @ - 1]
    /\ UNCHANGED autoRefresh
    /\ IF success
       THEN MvpFetchBorrowers(address, mvpInProgress)
       ELSE /\ mvpInProgress' = mvpInProgress \ {address}
            /\ UNCHANGED << mvpBorrowers, mvpOpportunities, mvpLoading, mvpScans >>

MvpPriceUpdate(prices) ==
    /\ UNCHANGED << calcVars, mvpVars, liqVars, feedVars >>
    /\ PriceUpdate(prices)

NextMvp ==
    \/ \E owner \in ScanOwners, response \in ApiResponses : MvpScanResponse(owner, response)
    \/ MvpTimerTick
    \/ MvpToggleAutoRefresh
    \/ MvpClickRefresh
    \/ \E i \in 1..MaxBorrowers : MvpClickLiquidate(i)
    \/ \E j \in 1..MaxBorrowers : MvpClickExecute(j)
    \/ \E address \in Addresses, success \in BOOLEAN : MvpExecutionTimer(address, success)
    \/ \E prices \in LivePriceMaps : MvpPriceUpdate(prices)

\* the state after the mount effects: the first fetchBorrowers() is pending on
\* the allMids request (the price cache is still empty)
InitMvp ==
    /\ InitCalcIdle
    /\ InitFeed
    /\ priceCache = EmptyPrices
    /\ mvpBorrowers = <<>>
    /\ mvpOpportunities = <<>>
    /\ mvpInProgress = {}
    /\ mvpLoading = TRUE
    /\ autoRefresh = TRUE
    /\ mvpScans = [o \in ScanOwners |-> IF o = NoOwner THEN 1 ELSE 0]
    /\ mvpExecs = [a \in Addresses |-> 0]
    /\ liqBorrowers = <<>>
    /\ liqOpportunities = <<>>
    /\ liqHistory = <<>>
    /\ isMonitoring = FALSE
    /\ autoLiquidationEnabled = FALSE
    /\ liqScans = 0
    /\ liqRuns = <<>>

SpecMvp == InitMvp /\ [][NextMvp]_vars

(***************************************************************************)
(* HyperLendLiquidator.                                                    *)
(***************************************************************************)
\* useState(100), in cents
minProfitThreshold == 10000

RECURSIVE TotalLen(_)
TotalLen(runs) == IF runs = <<>> THEN 0 ELSE Len(Head(runs)) + TotalLen(Tail(runs))

\* executions started so far: recorded ones and pending ones
LiqStarted == Len(liqHistory) + TotalLen(liqRuns)

\* the auto-liquidation effect: one loop over the opportunities, executing those
\* that reach the threshold one after the other
AutoLiquidationRuns(enabled, opportunities) ==
    LET Profitable(o) == o.profitEstimate >= minProfitThreshold
        queue == SelectSeq(opportunities, Profitable)
    IN  IF enabled /\ Len(opportunities) > 0 /\ queue # <<>> THEN << queue >> ELSE <<>>

\* the variance draws of the liquidator's scans: none, or all but the first low
LiqVarianceDraws ==
    { [i \in 1..MaxBorrowers |-> 10],
      [i \in 1..MaxBorrowers |-> IF i = 1 THEN 10 ELSE 8] }

LiqStartRuns(runs) ==
    /\ LiqStarted + TotalLen(runs) <= MaxExecutions
    /\ liqRuns' = liqRuns \o runs

\* fetchBorrowers from setBorrowers on, with the effects the new state triggers:
\* checkLiquidationOpportunities when borrowers is not empty, and then the
\* auto-liquidation effect on the new opportunity list
LiqPublish(data) ==
    /\ liqBorrowers' = data
    /\ IF Len(data) > 0
       THEN /\ liqOpportunities' = checkLiquidationOpportunities(data)
            /\ LiqStartRuns(AutoLiquidationRuns(autoLiquidationEnabled, liqOpportunities'))
       ELSE UNCHANGED << liqOpportunities, liqRuns >>

LiqFetchBorrowers ==
    \/ /\ priceCache # EmptyPrices
       /\ \E variances \in LiqVarianceDraws :
             LiqPublish(getBorrowers(JsonObject(priceCache), variances))
       /\ UNCHANGED liqScans
    \/ /\ priceCache = EmptyPrices
       /\ liqScans < MaxInFlight
       /\ liqScans' = liqScans + 1
       /\ UNCHANGED << liqBorrowers, liqOpportunities, liqRuns >>

LiqScanResponse(response) ==
    /\ UNCHANGED << calcVars, envVars, mvpVars, feedVars >>
    /\ liqScans > 0
    /\ liqScans' = liqScans - 1
    /\ \E variances \in LiqVarianceDraws :
          LiqPublish(getBorrowers(getCurrentPrices(response), variances))
    /\ UNCHANGED << liqHistory, isMonitoring, autoLiquidationEnabled >>

\* setInterval(fetchBorrowers, 30000), set while monitoring
LiqTimerTick ==
    /\ UNCHANGED << calcVars, envVars, mvpVars, feedVars >>
    /\ isMonitoring
    /\ LiqFetchBorrowers
    /\ UNCHANGED << liqHistory, isMonitoring, autoLiquidationEnabled >>

toggleMonitoring ==
    /\ UNCHANGED << calcVars, envVars, mvpVars, feedVars >>
    /\ isMonitoring' = ~isMonitoring
    /\ IF isMonitoring
       THEN UNCHANGED << liqBorrowers, liqOpportunities, liqScans, liqRuns >>
       ELSE LiqFetchBorrowers
    /\ UNCHANGED << liqHistory, autoLiquidationEnabled >>

\* the Auto Liquidation switch; the auto-liquidation effect runs again
LiqToggleAutoLiquidation ==
    /\ UNCHANGED << calcVars, envVars, mvpVars, feedVars >>
    /\ autoLiquidationEnabled' = ~autoLiquidationEnabled
    /\ LiqStartRuns(AutoLiquidationRuns(autoLiquidationEnabled', liqOpportunities))
    /\ UNCHANGED << liqBorrowers, liqOpportunities, liqHistory, isMonitoring, liqScans >>

\* executeLiquidation(opportunity): executeLiquidationFlow up to its 2 s delay
executeLiquidation(opportunity) ==
    /\ LiqStartRuns(<< << opportunity >> >>)
    /\ UNCHANGED << liqBorrowers, liqOpportunities, liqHistory, isMonitoring,
                    autoLiquidationEnabled, liqScans >>

\* the Liquidate button of a borrower with health factor < 1.0
LiqClickLiquidate(i) ==
    /\ UNCHANGED << calcVars, envVars, mvpVars, feedVars >>
    /\ i \in 1..Len(liqBorrowers)
    /\ JsLess(liqBorrowers[i].healthFactor, HFScale)
    /\ \E j \in 1..Len(liqOpportunities) :
          /\ liqOpportunities[j].borrower.address = liqBorrowers[i].address
          /\ \A k \in 1..(j - 1) :
                liqOpportunities[k].borrower.address # liqBorrowers[i].address
          /\ executeLiquidation(liqOpportunities[j])

\* the Execute Liquidation button of an opportunity (authenticated, connected)
LiqClickExecute(j) ==
    /\ UNCHANGED << calcVars, envVars, mvpVars, feedVars >>
    /\ j \in 1..Len(liqOpportunities)
    /\ executeLiquidation(liqOpportunities[j])

\* a history update that puts the new record first
AppendRecordNewestFirst(history, record) == << record >> \o history

\* setLiquidationHistory(prev => [...prev, record])
AppendRecord(history, record) == Append(history, record)

ExecutedRecord(opportunity, executedAt) ==
    [borrower |-> opportunity.borrower,
     collateralToSeize |-> opportunity.collateralToSeize,
     debtToRepay |-> opportunity.debtToRepay,
     profitEstimate |-> opportunity.profitEstimate,
     liquidationBonus |-> opportunity.liquidationBonus,
     executedAt |-> executedAt,
     status |-> "success"]

\* executeLiquidationFlow after its 2 s delay, for the first opportunity of
\* loop r; the loop then starts its next execution
LiqExecutionTimer(r) ==
    /\ UNCHANGED << calcVars, envVars, mvpVars, feedVars >>
    /\ r \in 1..Len(liqRuns)
    /\ liqHistory' = AppendRecord(liqHistory,
                                 ExecutedRecord(Head(liqRuns[r]), Len(liqHistory) + 1))
    /\ liqRuns' = IF Len(liqRuns[r]) > 1
                  THEN [liqRuns EXCEPT ![r] = Tail(@)]
                  ELSE SubSeq(liqRuns, 1, r - 1) \o SubSeq(liqRuns, r + 1, Len(liqRuns))
    /\ UNCHANGED << liqBorrowers, liqOpportunities, isMonitoring, autoLiquidationEnabled,
                    liqScans >>

LiqPriceUpdate(prices) ==
    /\ UNCHANGED << calcVars, mvpVars, liqVars, feedVars >>
    /\ PriceUpdate(prices)

NextLiq ==
    \/ \E response \in ApiResponses : LiqScanResponse(response)
    \/ LiqTimerTick
    \/ toggleMonitoring
    \/ LiqToggleAutoLiquidation
    \/ \E i \in 1..MaxBorrowers : LiqClickLiquidate(i)
    \/ \E j \in 1..(MaxBorrowers * 2) : LiqClickExecute(j)
    \/ \E r \in 1..MaxExecutions : LiqExecutionTimer(r)
    \/ \E prices \in LivePriceMaps : LiqPriceUpdate(prices)

InitLiq == InitCalcIdle /\ InitMonitor

SpecLiq == InitLiq /\ [][NextLiq]_vars

(***************************************************************************)
(* RealTimePriceProvider.                                                  *)
(***************************************************************************)
FeedSymbols == {"ETH", "BTC"}

\* a JSON value of an allMids object: a number or a string (of digits)
JsonNumber(n) == [type |-> "number", value |-> n]
JsonString(n) == [type |-> "string", value |-> n]

\* the objects allMids delivers, by stream or by poll
FeedPayloads ==
    { "ETH" :> JsonNumber(27),
      ("ETH" :> JsonNumber(30)) @@ ("BTC" :> JsonNumber(700)),
      "ETH" :> JsonString(35) }

NoPayload == [s \in {} |-> JsonNumber(0)]

\* event.data of a WebSocket message: text that JSON.parse rejects, or a JSON
\* value: null, or an object with a channel and possibly data
FeedMessage(parses, isNull, channel, hasData, data) ==
    [parses |-> parses, isNull |-> isNull, channel |-> channel, hasData |-> hasData,
     data |-> data]

FeedMessages ==
    { FeedMessage(FALSE, FALSE, "", FALSE, NoPayload),
      FeedMessage(TRUE, TRUE, "", FALSE, NoPayload),
      FeedMessage(TRUE, FALSE, "subscriptionResponse", TRUE, NoPayload),
      FeedMessage(TRUE, FALSE, "allMids", FALSE, NoPayload) }
        \cup { FeedMessage(TRUE, FALSE, "allMids", TRUE, payload) : payload \in FeedPayloads }

\* the outcome of the poll's fetch: rejected, or a response that is ok or
\* not, whose body is null or an object
PollResponse(rejected, ok, isNull, body) ==
    [rejected |-> rejected, ok |-> ok, isNull |-> isNull, body |-> body]

PollResponses ==
    { PollResponse(TRUE, FALSE, FALSE, NoPayload),
      PollResponse(FALSE, FALSE, FALSE, NoPayload),
      PollResponse(FALSE, TRUE, TRUE, NoPayload) }
        \cup { PollResponse(FALSE, TRUE, FALSE, payload) : payload \in FeedPayloads }

\* the symbols of a payload that pass typeof price === 'number'
NumericSymbols(payload) == {s \in DOMAIN payload : payload[s].type = "number"}

PriceFeed(symbol, price, timestamp, source) ==
    [symbol |-> symbol, price |-> price, timestamp |-> timestamp, source |-> source]

CacheSetBackdated(cache, payload, timestamp, source) ==
    [s \in DOMAIN cache \cup NumericSymbols(payload) |->
        IF s \in NumericSymbols(payload)
        THEN PriceFeed(s, payload[s].value, MaxTime - timestamp, source)
        ELSE cache[s]]

\* the loop of priceCache.set calls over Object.entries
CacheSet(cache, payload, timestamp, source) ==
    [s \in DOMAIN cache \cup NumericSymbols(payload) |->
        IF s \in NumericSymbols(payload)
        THEN PriceFeed(s, payload[s].value, timestamp, source)
        ELSE cache[s]]

\* a notification loop that ends after its first callback
notifySubscribersFirstOnly(cache) ==
    LET first == IF feedSubscribers = {} THEN {}
                 ELSE {CHOOSE cb \in feedSubscribers : TRUE}
    IN  feedNotified' = [calls |-> [cb \in Callbacks |-> IF cb \in first THEN 1 ELSE 0],
                         snapshot |-> cache]

\* notifySubscribers: every subscriber is called once with a copy of the cache
notifySubscribers(cache) ==
    feedNotified' = [calls |-> [cb \in Callbacks |-> IF cb \in feedSubscribers THEN 1 ELSE 0],
                     snapshot |-> cache]

\* a price update ends the outage that a stream failure began
OutageAfterUpdate(payload) ==
    feedOutage' = IF NumericSymbols(payload) # {} THEN 0 - 1 ELSE feedOutage

\* a fallback that never starts
startHttpPollingSkipped == UNCHANGED << isPolling, pollingInterval, feedPolls >>

\* startHttpPolling: setInterval and the initial pollPrices call
startHttpPolling ==
    IF isPolling
    THEN UNCHANGED << isPolling, pollingInterval, feedPolls >>
    ELSE /\ feedPolls < MaxPolls
         /\ isPolling' = TRUE
         /\ pollingInterval' = TRUE
         /\ feedPolls' = feedPolls + 1

\* getPrice: the absent value is Null
Null == 0 - 2
getPrice(symbol) == IF symbol \in DOMAIN feedCache THEN feedCache[symbol].price ELSE Null

getAllPrices == [s \in DOMAIN feedCache |-> feedCache[s].price]

\* initialize(): in a browser a new WebSocket with its four handlers; without
\* window, or when the constructor throws, HTTP polling at once
FeedInitialize(hasWindow) ==
    /\ UNCHANGED << calcVars, envVars, mvpVars, liqVars >>
    /\ IF hasWindow
       THEN /\ Len(feedSockets) < MaxSockets
            /\ feedSockets' = Append(feedSockets, "connecting")
            /\ wsConnection' = Len(feedSockets) + 1
            /\ UNCHANGED << isPolling, pollingInterval, feedPolls >>
       ELSE /\ startHttpPolling
            /\ UNCHANGED << feedSockets, wsConnection >>
    /\ feedNotified' = NotNotified
    /\ UNCHANGED << feedCache, feedSubscribers, feedHandles, feedNow, feedOutage >>

\* onopen of socket k: the subscribe message is sent
FeedOnOpen(k) ==
    /\ UNCHANGED << calcVars, envVars, mvpVars, liqVars >>
    /\ k \in 1..Len(feedSockets)
    /\ feedSockets[k] = "connecting"
    /\ feedSockets' = [feedSockets EXCEPT ![k] = "open"]
    /\ feedNotified' = NotNotified
    /\ UNCHANGED << wsConnection, feedCache, feedSubscribers, feedHandles, isPolling,
                    pollingInterval, feedPolls, feedNow, feedOutage >>

\* processPriceUpdate reached from onmessage: JSON.parse and a null value throw
\* into the handler's catch
processPriceUpdate(message) ==
    IF message.parses /\ ~message.isNull /\ message.channel = "allMids" /\ message.hasData
    THEN /\ feedCache' = CacheSet(feedCache, message.data, feedNow, "hyperliquid-ws")
         /\ notifySubscribers(feedCache')
         /\ OutageAfterUpdate(message.data)
    ELSE /\ feedNotified' = NotNotified
         /\ UNCHANGED << feedCache, feedOutage >>

\* onmessage of socket k
FeedOnMessage(k, message) ==
    /\ UNCHANGED << calcVars, envVars, mvpVars, liqVars >>
    /\ k \in 1..Len(feedSockets)
    /\ feedSockets[k] = "open"
    /\ processPriceUpdate(message)
    /\ UNCHANGED << feedSockets, wsConnection, feedSubscribers, feedHandles, isPolling,
                    pollingInterval, feedPolls, feedNow >>

\* onerror of socket k; its close event follows
FeedOnError(k) ==
    /\ UNCHANGED << calcVars, envVars, mvpVars, liqVars >>
    /\ k \in 1..Len(feedSockets)
    /\ feedSockets[k] \in {"connecting", "open"}
    /\ feedSockets' = [feedSockets EXCEPT ![k] = "errored"]
    /\ startHttpPolling
    /\ feedOutage' = IF feedOutage < 0 THEN 0 ELSE feedOutage
    /\ feedNotified' = NotNotified
    /\ UNCHANGED << wsConnection, feedCache, feedSubscribers, feedHandles, feedNow >>

\* onclose of socket k: after an error, a close by the server, or destroy()
FeedOnClose(k) ==
    /\ UNCHANGED << calcVars, envVars, mvpVars, liqVars >>
    /\ k \in 1..Len(feedSockets)
    /\ feedSockets[k] \in {"connecting", "open", "errored", "closing"}
    /\ feedSockets' = [feedSockets EXCEPT ![k] = "closed"]
    /\ startHttpPolling
    /\ feedOutage' = IF feedOutage < 0 /\ feedSockets[k] # "closing" THEN 0 ELSE feedOutage
    /\ feedNotified' = NotNotified
    /\ UNCHANGED << wsConnection, feedCache, feedSubscribers, feedHandles, feedNow >>

\* the setInterval(pollPrices, 10000) callback
FeedPollTimer ==
    /\ UNCHANGED << calcVars, envVars, mvpVars, liqVars >>
    /\ pollingInterval
    /\ feedPolls < MaxPolls
    /\ feedPolls' = feedPolls + 1
    /\ feedOutage' = IF feedOutage < 0 THEN feedOutage ELSE Min(feedOutage + 1, MaxOutage)
    /\ feedNotified' = NotNotified
    /\ UNCHANGED << feedSockets, wsConnection, feedCache, feedSubscribers, feedHandles,
                    isPolling, pollingInterval, feedNow >>

\* pollPrices after its fetch: a rejection, a response that is not ok and a
\* null body (Object.entries throws) leave everything as it is
pollPrices(response) ==
    /\ UNCHANGED << calcVars, envVars, mvpVars, liqVars >>
    /\ feedPolls > 0
    /\ feedPolls' = feedPolls - 1
    /\ IF ~response.rejected /\ response.ok /\ ~response.isNull
       THEN /\ feedCache' = CacheSet(feedCache, response.body, feedNow, "hyperliquid-http")
            /\ notifySubscribers(feedCache')
            /\ OutageAfterUpdate(response.body)
       ELSE /\ feedNotified' = NotNotified
            /\ UNCHANGED << feedCache, feedOutage >>
    /\ UNCHANGED << feedSockets, wsConnection, feedSubscribers, feedHandles, isPolling,
                    pollingInterval, feedNow >>

\* subscribe(callback): returns a function that deletes callback
subscribe(callback) ==
    /\ UNCHANGED << calcVars, envVars, mvpVars, liqVars >>
    /\ Len(feedHandles) < MaxHandles
    /\ feedSubscribers' = feedSubscribers \cup {callback}
    /\ feedHandles' = Append(feedHandles, [callback |-> callback, invoked |-> FALSE])
    /\ feedNotified' = NotNotified
    /\ UNCHANGED << feedSockets, wsConnection, feedCache, isPolling, pollingInterval,
                    feedPolls, feedNow, feedOutage >>

\* a call of the function subscribe returned as handle h
FeedUnsubscribe(h) ==
    /\ UNCHANGED << calcVars, envVars, mvpVars, liqVars >>
    /\ h \in 1..Len(feedHandles)
    /\ feedSubscribers' = feedSubscribers \ {feedHandles[h].callback}
    /\ feedHandles' = [feedHandles EXCEPT ![h].invoked = TRUE]
    /\ feedNotified' = NotNotified
    /\ UNCHANGED << feedSockets, wsConnection, feedCache, isPolling, pollingInterval,
                    feedPolls, feedNow, feedOutage >>

\* destroy(): close() of the current socket starts its closing handshake
destroy ==
    /\ UNCHANGED << calcVars, envVars, mvpVars, liqVars >>
    /\ feedSockets' = [k \in 1..Len(feedSockets) |->
                          IF k = wsConnection /\ feedSockets[k] \in {"connecting", "open"}
                          THEN "closing" ELSE feedSockets[k]]
    /\ wsConnection' = 0
    /\ pollingInterval' = FALSE
    /\ isPolling' = FALSE
    /\ feedSubscribers' = {}
    /\ feedCache' = EmptyCache
    /\ feedOutage' = 0 - 1
    /\ feedNotified' = NotNotified
    /\ UNCHANGED << feedHandles, feedPolls, feedNow >>

\* time passes: Date.now() grows
FeedTick ==
    /\ UNCHANGED << calcVars, envVars, mvpVars, liqVars >>
    /\ feedNow < MaxTime
    /\ feedNow' = feedNow + 1
    /\ feedNotified' = NotNotified
    /\ UNCHANGED << feedSockets, wsConnection, feedCache, feedSubscribers, feedHandles,
                    isPolling, pollingInterval, feedPolls, feedOutage >>

NextFeed ==
    \/ \E hasWindow \in BOOLEAN : FeedInitialize(hasWindow)
    \/ \E k \in 1..MaxSockets : FeedOnOpen(k)
    \/ \E k \in 1..MaxSockets, message \in FeedMessages : FeedOnMessage(k, message)
    \/ \E k \in 1..MaxSockets : FeedOnError(k)
    \/ \E k \in 1..MaxSockets : FeedOnClose(k)
    \/ FeedPollTimer
    \/ \E response \in PollResponses : pollPrices(response)
    \/ \E callback \in Callbacks : subscribe(callback)
    \/ \E h \in 1..MaxHandles : FeedUnsubscribe(h)
    \/ destroy
    \/ FeedTick

InitProvider == InitCalcIdle /\ InitMonitor

SpecFeed == InitProvider /\ [][NextFeed]_vars

(***************************************************************************)
(* Claims about the scanners.                                              *)
(***************************************************************************)
\* the executions in flight for an address: every opportunity a loop has started
\* and not yet recorded is the head of its queue
LiqInFlight(address) ==
    Cardinality({r \in 1..Len(liqRuns) : Head(liqRuns[r]).borrower.address = address})

\* C1: at any time at most one execution is in flight for a borrower address
C1_OneExecutionPerBorrower ==
    \A address \in Addresses : LiqInFlight(address) <= 1

ProfitDescending(opportunities) ==
    \A i \in 1..(Len(opportunities) - 1) :
        opportunities[i].profitEstimate >= opportunities[i + 1].profitEstimate

\* C2: every published opportunity list is sorted by estimated profit,
\* descending.
C2_PublishedSortedByProfit ==
    /\ ProfitDescending(mvpOpportunities)
    /\ ProfitDescending(liqOpportunities)

\* C3: the maximum liquidation value of a generated opportunity never exceeds
\* min(0.5 * debt value, collateral value) of its position.
C3_MaxLiquidationWithinCaps ==
    \A i \in 1..Len(mvpOpportunities) :
        LET opportunity == mvpOpportunities[i]
        IN  opportunity.maxLiquidationValue <=
                Min(opportunity.borrower.totalDebt \div 2,
                    opportunity.borrower.totalCollateral)

\* the snapshot source fails: the price map it gets is null, which raises in
\* getLiveBorrowerData, whose catch returns []
FailedResponse == ApiResponse(TRUE, JsonNull)

\* C4: a scan cycle whose snapshot fetch fails, the source swallowing the
\* failure and returning no borrowers included, leaves the published
\* opportunity list as it was.
C4_FailedScanKeepsList ==
    [][(\E owner \in ScanOwners : MvpScanResponse(owner, FailedResponse))
          => mvpOpportunities' = mvpOpportunities]_vars

\* C5: at most one scan is in flight at any time.
C5_OneScanInFlight ==
    /\ TotalOf(mvpScans) <= 1
    /\ liqScans <= 1


\* strictly below 1.0, as a number (NaN is below nothing)
SpecBelowOne(healthFactor) == healthFactor # NaN /\ healthFactor < HFScale

HasBothSides(borrower) ==
    Len(borrower.collateralAssets) >= 1 /\ Len(borrower.debtAssets) >= 1

LiquidatableExactlyBelowOne(snapshot, opportunities) ==
    /\ \A i \in 1..Len(opportunities) :
          SpecBelowOne(opportunities[i].borrower.healthFactor)
    /\ \A b \in 1..Len(snapshot) :
          /\ ~SpecBelowOne(snapshot[b].healthFactor) =>
                \A i \in 1..Len(opportunities) :
                    opportunities[i].borrower.address # snapshot[b].address
          /\ (SpecBelowOne(snapshot[b].healthFactor) /\ HasBothSides(snapshot[b])) =>
                \E i \in 1..Len(opportunities) : opportunities[i].borrower = snapshot[b]

\* C9: a borrower is liquidatable exactly when its health factor is strictly
\* below 1.0: every opportunity refers to a borrower with health factor < 1.0,
\* none refers to a borrower of the snapshot with health factor >= 1.0 (exactly
\* 1.0 and Infinity included), and every borrower of the snapshot with health
\* factor < 1.0 and a collateral and a debt asset has an opportunity; for the
\* scanners applied to one snapshot and for the lists each component publishes.
C9_LiquidatableExactlyBelowOne ==
    /\ CalcApplied =>
          /\ \A b \in 1..Len(calcOut.borrowers) :
                isLiquidatable(calcOut.borrowers[b])
                    = SpecBelowOne(calcOut.borrowers[b].healthFactor)
          /\ LiquidatableExactlyBelowOne(calcOut.borrowers, calcOut.mvp)
          /\ LiquidatableExactlyBelowOne(calcOut.borrowers, calcOut.liq)
    /\ LiquidatableExactlyBelowOne(mvpBorrowers, mvpOpportunities)
    /\ LiquidatableExactlyBelowOne(liqBorrowers, liqOpportunities)

\* C9 witness: the scanners ran on a borrower with collateral and debt whose
\* health factor is exactly 1.0, and produced nothing.
C9_Witness ==
    /\ CalcApplied
    /\ HasBothSides(calcOut.borrowers[1])
    /\ calcOut.borrowers[1].healthFactor = HFScale
    /\ calcOut.mvp = <<>>
    /\ calcOut.liq = <<>>


(***************************************************************************)
(* Claims about the price aggregator.                                      *)
(***************************************************************************)
\* C11: after the stream fails or closes, the polling fallback produces a price
\* update (price map updated, subscribers notified) within one poll interval
\* plus epsilon.  The poll timer fires every interval, so by its third firing
\* after the failure more than one interval and any epsilon have passed.
C11_FallbackUpdatesWithinInterval == feedOutage <= 2


FeedPrices ==
    UNION { {payload[symbol].value : symbol \in NumericSymbols(payload)} :
              payload \in FeedPayloads }

\* this step is the stream or the poller producing price for symbol
Produces(symbol, price) ==
    \/ \E k \in 1..Len(feedSockets), message \in FeedMessages :
          /\ message.channel = "allMids" /\ message.hasData
          /\ symbol \in NumericSymbols(message.data)
          /\ message.data[symbol].value = price
          /\ FeedOnMessage(k, message)
    \/ \E response \in PollResponses :
          /\ ~response.rejected /\ response.ok /\ ~response.isNull
          /\ symbol \in NumericSymbols(response.body)
          /\ response.body[symbol].value = price
          /\ pollPrices(response)

\* C13: getPrice(symbol) is null exactly when neither the stream nor the
\* poller has produced a price for the symbol since the aggregator was created
\* or last destroyed, and otherwise the most recently cached price; a missing
\* price is never reported as zero (nor listed by getAllPrices).
C13_GetPriceNullIffNeverProduced ==
    /\ \A symbol \in FeedSymbols : getPrice(symbol) = Null
    /\ [][\A symbol \in FeedSymbols :
            /\ destroy => getPrice(symbol)' = Null
            /\ \A price \in FeedPrices : Produces(symbol, price) => getPrice(symbol)' = price
            /\ (~destroy /\ ~(\E price \in FeedPrices : Produces(symbol, price)))
                  => getPrice(symbol)' = getPrice(symbol)
            /\ getPrice(symbol)' # 0
            /\ (symbol \in DOMAIN getAllPrices') <=> (getPrice(symbol)' # Null)]_vars

\* A state where ETH was produced twice (30 together with BTC, later 27 alone)
\* and getPrice gives the later price.
C13_Witness ==
    /\ getPrice("ETH") = 27
    /\ getPrice("BTC") = 700
    /\ feedCache["ETH"].timestamp > feedCache["BTC"].timestamp

\* A source hands the aggregator a value for the symbol in this step, whatever
\* its JSON type: an allMids message with data, or an ok poll answer.
Delivers(symbol) ==
    \/ \E k \in 1..Len(feedSockets), message \in FeedMessages :
          /\ message.parses /\ ~message.isNull
          /\ message.channel = "allMids" /\ message.hasData
          /\ symbol \in DOMAIN message.data
          /\ FeedOnMessage(k, message)
    \/ \E response \in PollResponses :
          /\ ~response.rejected /\ response.ok /\ ~response.isNull
          /\ symbol \in DOMAIN response.body
          /\ pollPrices(response)

\* C13: getPrice(symbol) is the absent value only if neither the stream nor the
\* poller has produced a price for the symbol since creation or the last
\* destroy: right after a source delivered a price for the symbol, getPrice
\* does not answer null.
C13_DeliveredPriceIsReturned ==
    [][\A symbol \in FeedSymbols : Delivers(symbol) => getPrice(symbol)' # Null]_vars

(***************************************************************************)
(* Claims about a missing price.                                           *)
(***************************************************************************)
\* the coins of the borrower's non-zero positions that the price map does not know
MissingPrices(in) ==
    LET held == {in.collateral[i] : i \in 1..Len(in.collateral)}
                    \cup {in.debt[i] : i \in 1..Len(in.debt)}
    IN  {h.symbol : h \in {x \in held : x.amount > 0}} \ DOMAIN in.prices

\* C14: a borrower that references a symbol with no known price gets no health
\* factor from a substituted price: calculateBorrowerMetrics gives no borrower
\* record, so the borrower is classified neither healthy nor liquidatable.
C14_MissingPriceAbortsComputation ==
    (CalcApplied /\ MissingPrices(calcIn) # {}) => calcOut.metrics = <<>>

\* A price message with this payload comes in during this step: an allMids
\* message on an open socket, or an ok answer to the poll.
InboundPrices(payload) ==
    \/ \E k \in 1..Len(feedSockets) :
          FeedOnMessage(k, FeedMessage(TRUE, FALSE, "allMids", TRUE, payload))
    \/ pollPrices(PollResponse(FALSE, TRUE, FALSE, payload))

\* C15: on every inbound price message the price map is updated and every
\* callback registered at that time is invoked exactly once (and no other
\* callback at all) with a snapshot that equals the cache after the update and
\* so holds every symbol cached so far, not only the symbols of the message.
C15_EveryCallbackGetsFullSnapshot ==
    [][\A payload \in FeedPayloads :
          InboundPrices(payload) =>
              /\ \A s \in NumericSymbols(payload) : feedCache'[s].price = payload[s].value
              /\ \A cb \in Callbacks :
                    feedNotified'.calls[cb] = IF cb \in feedSubscribers THEN 1 ELSE 0
              /\ feedNotified'.snapshot = feedCache'
              /\ DOMAIN feedNotified'.snapshot
                    = DOMAIN feedCache \cup NumericSymbols(payload)]_vars

\* C15 witness: two callbacks were just notified by a message that carried ETH
\* only, and their snapshot also holds the BTC price of an earlier message.
C15_Witness ==
    /\ feedSubscribers = Callbacks
    /\ \A cb \in Callbacks : feedNotified.calls[cb] = 1
    /\ DOMAIN feedNotified.snapshot = {"ETH", "BTC"}
    /\ feedNotified.snapshot["ETH"].timestamp > feedNotified.snapshot["BTC"].timestamp
    /\ feedNotified.snapshot["ETH"].price = 27

\* C16: invoking an unsubscribe handle more than once has no further effect:
\* a call of a handle that was already invoked leaves the set of registered
\* callbacks as it is.
C16_SecondInvocationHasNoEffect ==
    [][\A h \in 1..Len(feedHandles) :
          (feedHandles[h].invoked /\ FeedUnsubscribe(h))
              => feedSubscribers' = feedSubscribers]_vars

\* the stream of socket k fails in this step: its error or its close event
StreamFailure == \E k \in 1..Len(feedSockets) : FeedOnError(k) \/ FeedOnClose(k)

\* a malformed message: not JSON, or JSON null
MalformedMessage ==
    \E k \in 1..Len(feedSockets), message \in FeedMessages :
        /\ ~message.parses \/ message.isNull
        /\ FeedOnMessage(k, message)

\* a poll whose fetch is rejected, whose response is not ok or has no body
FailedPoll ==
    \E response \in PollResponses :
        /\ response.rejected \/ ~response.ok \/ response.isNull
        /\ pollPrices(response)

\* C17: network errors are never fatal.  A stream error, a stream close, a
\* failed poll and a malformed message leave the price map with its last
\* values and never stop a running poller; after a stream failure the poller
\* is running; and the poller's flag is set exactly while its interval timer
\* is armed, so a stream failure always finds it running or starts it.
C17_NetworkErrorsAreNotFatal ==
    /\ [](isPolling <=> pollingInterval)
    /\ [][(StreamFailure \/ MalformedMessage \/ FailedPoll)
              => /\ feedCache' = feedCache
                 /\ feedSubscribers' = feedSubscribers
                 /\ (pollingInterval => pollingInterval')
                 /\ (StreamFailure => (isPolling' /\ pollingInterval'))]_vars

\* C17 witness: the stream failed after it had delivered BTC, the price map
\* kept BTC, the poller runs, and a later poll answer brought ETH.
C17_Witness ==
    /\ \E k \in 1..Len(feedSockets) : feedSockets[k] \in {"errored", "closed"}
    /\ isPolling /\ pollingInterval
    /\ DOMAIN feedCache = {"ETH", "BTC"}
    /\ feedCache["BTC"].source = "hyperliquid-ws"
    /\ feedCache["ETH"].source = "hyperliquid-http"
    /\ feedCache["ETH"].timestamp > feedCache["BTC"].timestamp

(***************************************************************************)
(* Claims about executions.                                                *)
(***************************************************************************)
\* C18: every execution that fails produces a record with status failed in the
\* execution history: when the dashboard's execution for an address ends in
\* failure, the history holds a failed record for that address afterwards.
C18_FailedExecutionIsRecorded ==
    [][\A address \in Addresses :
          MvpExecutionTimer(address, FALSE)
              => \E i \in 1..Len(MvpExecutionHistory') :
                    /\ MvpExecutionHistory'[i].address = address
                    /\ MvpExecutionHistory'[i].status = "failed"]_vars

\* an execution for the address has finished: its record is in the history
LiqExecuted(address) ==
    \E i \in 1..Len(liqHistory) : liqHistory[i].borrower.address = address

\* the executions for the address that the loops in runs have started or queued
LiqQueued(runs, address) ==
    LET ForAddress(o) == o.borrower.address = address
    IN  Len(SelectSeq(Flatten(runs), ForAddress))

\* a scan cycle publishes in this step: by the timer, by the answer to a
\* pending price request, or by the scan that switching monitoring on starts
LiqScanStep ==
    \/ LiqTimerTick
    \/ \E response \in ApiResponses : LiqScanResponse(response)
    \/ (~isMonitoring /\ toggleMonitoring)

\* C19: an execution is never repeated automatically: a scan cycle that
\* republishes a borrower whose execution has finished does not start another
\* execution for that borrower.
C19_ScanStartsNoRepeatedExecution ==
    [][\A address \in Addresses :
          (LiqScanStep /\ LiqExecuted(address))
              => LiqQueued(liqRuns', address) <= LiqQueued(liqRuns, address)]_vars

\* C20: the execution history is append-only: in every step its length does
\* not decrease and the records it held stay the same, in the same places.
C20_HistoryIsAppendOnly ==
    [][/\ Len(liqHistory') >= Len(liqHistory)
       /\ SubSeq(liqHistory', 1, Len(liqHistory)) = liqHistory]_vars

\* C20 witness: a second record was appended behind the first, with scans
\* running
C20_Witness ==
    /\ Len(liqHistory) >= 2
    /\ liqHistory[1].executedAt < liqHistory[2].executedAt
    /\ isMonitoring

(***************************************************************************)
(* Claims about the execution history as shown.                            *)
(***************************************************************************)
\* the history tab: liquidationHistory.map(...), one row per record in the
\* order of the array
HistoryTab == [index \in 1..Len(liqHistory) |-> liqHistory[index]]

\* C21: the execution history is exposed newest first: of two rows of the
\* history tab, the upper one holds the record that completed later (or at
\* the same time).
C21_HistoryShownNewestFirst ==
    \A i, j \in 1..Len(HistoryTab) :
        i < j => HistoryTab[i].executedAt >= HistoryTab[j].executedAt

(***************************************************************************)
(* Claims about the opportunity list.                                      *)
(***************************************************************************)
\* the (collateral asset, debt asset) pairs of a borrower
PairCount(borrower) == Len(borrower.collateralAssets) * Len(borrower.debtAssets)

\* The liquidator's scanner lists one opportunity per pair of each
\* liquidatable borrower and none for the others.
LiqOnePerPair ==
    CalcApplied =>
        \A b \in 1..Len(calcOut.borrowers) :
            Len(BorrowerOpportunities(calcOut.borrowers[b]))
                = IF isLiquidatable(calcOut.borrowers[b])
                  THEN PairCount(calcOut.borrowers[b]) ELSE 0

\* C22: a liquidatable borrower with m collateral assets and n debt assets
\* contributes exactly m x n opportunities to the published list, here the
\* list of the dashboard's scanner.
C22_OneOpportunityPerPair ==
    CalcApplied =>
        \A b \in 1..Len(calcOut.borrowers) :
            LET borrower == calcOut.borrowers[b]
                ForBorrower(o) == o.borrower = borrower
            IN  isLiquidatable(borrower)
                    => Len(SelectSeq(calcOut.mvp, ForBorrower)) = PairCount(borrower)

\* The dashboard's published list is always the one derived from its
\* published borrower snapshot.
MvpOpportunitiesFromSnapshot == mvpOpportunities = MvpOpportunities(mvpBorrowers)

\* C23: the published opportunity list is a full replacement: it holds exactly
\* the opportunities derived from the borrower snapshot of the last completed
\* scan and no entry of an earlier scan; when that scan found no borrowers
\* the list is empty.
C23_OpportunitiesFromLatestSnapshot ==
    liqOpportunities = checkLiquidationOpportunities(liqBorrowers)

(***************************************************************************)
(* Claims about the snapshot of a scan cycle.                              *)
(***************************************************************************)
\* the price maps a cycle can take: the cache, the API's answer or the defaults
PriceSnapshots == LivePriceMaps \cup {getDefaultPrices}

\* every asset of the borrower is valued at the price the map has for it
ValuedWith(borrower, prices) ==
    LET AtPrice(asset) == /\ asset.symbol \in DOMAIN prices
                          /\ asset.valueUSD = asset.amount * prices[asset.symbol]
    IN  /\ \A c \in 1..Len(borrower.collateralAssets) : AtPrice(borrower.collateralAssets[c])
        /\ \A d \in 1..Len(borrower.debtAssets) : AtPrice(borrower.debtAssets[d])

\* C24: every borrower of one published result was valued with the same price
\* map, whatever price updates arrived while the cycle was running or after.
C24_OnePriceMapPerCycle ==
    \E prices \in PriceSnapshots :
        \A b \in 1..Len(mvpBorrowers) : ValuedWith(mvpBorrowers[b], prices)

\* C24 witness: two borrowers are published, both valued with one map, while
\* the feed has delivered another map that is now in the price cache.
C24_Witness ==
    /\ Len(mvpBorrowers) = 2
    /\ priceCache \in LivePriceMaps
    /\ \E prices \in PriceSnapshots \ {priceCache} :
          \A b \in 1..Len(mvpBorrowers) : ValuedWith(mvpBorrowers[b], prices)

\* C25: a scan abandoned while in flight never publishes: while the monitor
\* is and stays stopped, neither the borrower list nor the opportunity list
\* changes.
C25_AbandonedScanNeverPublishes ==
    [][(~isMonitoring /\ ~isMonitoring')
          => (liqBorrowers' = liqBorrowers /\ liqOpportunities' = liqOpportunities)]_vars

(***************************************************************************)
(* Claims about the scan loop.                                             *)
(***************************************************************************)
\* the answers with which a cycle fails: the price request fails, or the
\* snapshot source fails on a null price map
FailedResponses == {ApiResponse(FALSE, JsonNull), FailedResponse}

\* C26: the scan loop survives failures: a failed cycle ends with the scanner
\* idle and the timer as it was (armed while auto-refresh is on), and the
\* scanner never shows scanning with no scan in flight.
C26_ScanLoopSurvivesFailures ==
    /\ [](mvpLoading => TotalOf(mvpScans) > 0)
    /\ [][\A owner \in ScanOwners, response \in FailedResponses :
              MvpScanResponse(owner, response)
                  => (~mvpLoading' /\ autoRefresh' = autoRefresh)]_vars

\* C26 witness: a failed cycle has emptied the published lists, the scanner is
\* idle with nothing in flight, and auto-refresh is on, so that MvpTimerTick
\* can start the next scan.
C26_Witness ==
    /\ ~mvpLoading
    /\ mvpBorrowers = <<>>
    /\ TotalOf(mvpScans) = 0
    /\ TotalOf(mvpExecs) = 0
    /\ autoRefresh

(***************************************************************************)
(* Claims about the aggregator after destroy().                            *)
(***************************************************************************)
\* the aggregator as destroy() leaves it (and as it is before the first
\* initialize()): no current socket, no polling, nothing cached, no subscriber
FeedQuiescent ==
    /\ wsConnection = 0
    /\ ~isPolling /\ ~pollingInterval
    /\ feedCache = EmptyCache
    /\ feedSubscribers = {}

\* an event of an earlier socket or the answer to an earlier poll is delivered
FeedLateEvent ==
    \/ \E k \in 1..Len(feedSockets) : FeedOnClose(k) \/ FeedOnError(k)
    \/ \E k \in 1..Len(feedSockets), message \in FeedMessages : FeedOnMessage(k, message)
    \/ \E response \in PollResponses : pollPrices(response)

\* C27: after destroy() the aggregator stays quiescent until initialize() is
\* called again: the close event of the destroyed socket and the answer to a
\* poll issued before destroy() leave it with no polling timer, an empty price
\* map and no subscriber.
C27_QuiescentAfterDestroy ==
    [][(FeedQuiescent /\ FeedLateEvent) => FeedQuiescent']_vars

(***************************************************************************)
(* Claims about the in-progress set.                                       *)
(***************************************************************************)
\* the executions of the dashboard for the address that have started and not
\* finished: waiting for the 2 s delay or for the refresh after success
MvpRunning(address) == mvpExecs[address] + mvpScans[address]

EqualUpToRounding(a, b) ==
    IF a \in {NaN, Infinity} \/ b \in {NaN, Infinity} THEN a = b
    ELSE a - b \in {0 - 1, 0, 1}

RecomputedHealthFactor(borrower) ==
    calculateHealthFactor(borrower.collateralAssets, borrower.debtAssets)

JsLessOrEqual(a, b) == a # NaN /\ b # NaN /\ a <= b

SortedByHealthFactor(list) ==
    \A i \in 1..(Len(list) - 1) :
        JsLessOrEqual(list[i].healthFactor, list[i + 1].healthFactor)

DistinctAddresses(list) ==
    \A i, j \in 1..Len(list) : i # j => list[i].address # list[j].address

\* the list the monitor hook publishes is what getBorrowers returned, with no
\* sort of its own
GetBorrowersResultIsSorted ==
    SortedByHealthFactor(liqBorrowers) /\ DistinctAddresses(liqBorrowers)

\* C30: the borrower list getBorrowers returned and the dashboard published
\* is sorted by health factor ascending, the borrower most at risk first: of
\* any two adjacent borrowers the first has the smaller or the same health
\* factor; and no address occurs twice in the list.
C30_SortedByHealthFactorDistinctAddresses ==
    SortedByHealthFactor(mvpBorrowers) /\ DistinctAddresses(mvpBorrowers)

\* C30 witness: two borrowers with different health factors are published
\* and the sort has moved the second sample address in front of the first
C30_Witness ==
    /\ Len(mvpBorrowers) = 2
    /\ mvpBorrowers[1].address = sampleAddresses[2]
    /\ mvpBorrowers[2].address = sampleAddresses[1]
    /\ mvpBorrowers[1].healthFactor < mvpBorrowers[2].healthFactor

=============================================================================
